---- MODULE Spec2Model ----
(***************************************************************************)
(* Lesson Planner API (src/app.py): the POST /generate handler, its text   *)
(* extraction, the clean-up of the model's answer and the line scanner     *)
(* that transcribes the answer into a document.                            *)
(*                                                                         *)
(* Strings are sequences of chunks.  A chunk is a piece of text that the   *)
(* program's string tests never look inside: a single character the code   *)
(* singles out ("*", "\n", "|", ":", " ") or a word or phrase.             *)
(***************************************************************************)
EXTENDS Integers, Sequences, FiniteSets, TLC

\* ------------------------------------------------------------------------
\* Bounds of the model
\* ------------------------------------------------------------------------
MaxRequests == 2
MaxLines == 3
MaxChunks == 6

\* ------------------------------------------------------------------------
\* Strings
\* ------------------------------------------------------------------------
NL == "\n"
EmptyStr == << >>

\* str.lower() on one chunk
Lower(c) ==
    CASE c = "Domain Name" -> "domain name"
      [] c = "Rubric Check" -> "rubric check"
      [] c = "AI Mentor Comment" -> "ai mentor comment"
      [] c = "Supporting Details" -> "supporting details"
      [] c = "Lesson Stages" -> "lesson stages"
      [] c = "SECTION 1" -> "section 1"
      [] c = "Section 1" -> "section 1"
      [] c = "SECTION 2" -> "section 2"
      [] c = "Section 2" -> "section 2"
      [] c = "Summary of AI" -> "summary of ai"
      [] c = "Summary of AI-Generated Guidance" -> "summary of ai-generated guidance"
      [] c = "Generated Guidance" -> "generated guidance"
      [] c = "Aids" -> "aids"
      [] c = ".PDF" -> ".pdf"
      [] c = "PLAN" -> "plan"
      [] OTHER -> c

\* str.upper() on one chunk
Upper(c) ==
    CASE Lower(c) = "domain name" -> "DOMAIN NAME"
      [] Lower(c) = "rubric check" -> "RUBRIC CHECK"
      [] Lower(c) = "ai mentor comment" -> "AI MENTOR COMMENT"
      [] Lower(c) = "supporting details" -> "SUPPORTING DETAILS"
      [] Lower(c) = "lesson stages" -> "LESSON STAGES"
      [] Lower(c) = "section 1" -> "SECTION 1"
      [] Lower(c) = "section 2" -> "SECTION 2"
      [] Lower(c) = "summary of ai" -> "SUMMARY OF AI"
      [] Lower(c) = "summary of ai-generated guidance" -> "SUMMARY OF AI-GENERATED GUIDANCE"
      [] Lower(c) = "generated guidance" -> "GENERATED GUIDANCE"
      [] Lower(c) = "aids" -> "AIDS"
      [] Lower(c) = "see" -> "SEE"
      [] Lower(c) = "x" -> "X"
      [] Lower(c) = "y" -> "Y"
      [] OTHER -> c

LowerStr(s) == [i \in 1..Len(s) |-> Lower(s[i])]
UpperStr(s) == [i \in 1..Len(s) |-> Upper(s[i])]

\* whitespace as str.strip() and \s see it
IsSpace(c) == c \in {" ", NL}

RECURSIVE LStripSet(_, _)
LStripSet(s, drop) ==
    IF s # << >> /\ Head(s) \in drop THEN LStripSet(Tail(s), drop) ELSE s

RECURSIVE RStripSet(_, _)
RStripSet(s, drop) ==
    IF s # << >> /\ s[Len(s)] \in drop
    THEN RStripSet(SubSeq(s, 1, Len(s) - 1), drop) ELSE s

\* str.strip(chars)
StripSet(s, drop) == RStripSet(LStripSet(s, drop), drop)

\* str.strip()
Strip(s) == StripSet(s, {" ", NL})

\* sub in s, for a one-chunk sub
Contains(s, c) == \E i \in 1..Len(s) : s[i] = c

\* str.split(sep) for a one-chunk separator: always at least one piece
RECURSIVE SplitAcc(_, _, _, _)
SplitAcc(s, sep, done, cur) ==
    IF s = << >> THEN Append(done, cur)
    ELSE IF Head(s) = sep THEN SplitAcc(Tail(s), sep, Append(done, cur), << >>)
    ELSE SplitAcc(Tail(s), sep, done, Append(cur, Head(s)))

Split(s, sep) == SplitAcc(s, sep, << >>, << >>)

\* sep.join(parts)
RECURSIVE Join(_, _)
Join(parts, sep) ==
    IF parts = << >> THEN << >>
    ELSE IF Len(parts) = 1 THEN parts[1]
    ELSE parts[1] \o <<sep>> \o Join(Tail(parts), sep)

\* ------------------------------------------------------------------------
\* Clean-up of the model's answer (generate_lesson_plan, "AI CALL" and
\* "CLEANUP")
\* ------------------------------------------------------------------------
\* Python's None where a string is expected, kept apart from every string
NoContent == <<"<None>">>

\* response.choices[0].message.content or ""
ContentOrEmpty(content) == IF content = NoContent THEN EmptyStr ELSE content

\* a slip: lesson_text.replace("*", "", 1), only the first asterisk goes
RemoveAsterisks_once(s) ==
    IF Contains(s, "*")
    THEN LET k == CHOOSE i \in 1..Len(s) : s[i] = "*" /\ \A j \in 1..(i - 1) : s[j] # "*"
         IN  SubSeq(s, 1, k - 1) \o SubSeq(s, k + 1, Len(s))
    ELSE s

\* lesson_text.replace("*", "")
RemoveAsterisks(s) == SelectSeq(s, LAMBDA c : c # "*")

\* (?i)summary of ai[- ]?generated guidance, somewhere in one line
HasSummaryPhrase(line) ==
    \E i \in 1..Len(line) :
        \/ Lower(line[i]) = "summary of ai-generated guidance"
        \/ /\ Lower(line[i]) = "summary of ai"
           /\ \/ /\ i + 1 <= Len(line)
                 /\ Lower(line[i + 1]) = "generated guidance"
              \/ /\ i + 2 <= Len(line)
                 /\ line[i + 1] \in {"-", " "}
                 /\ Lower(line[i + 2]) = "generated guidance"

\* re.sub(r"(?i)^.*summary of ai[- ]?generated guidance.*$", "", text, flags=re.MULTILINE)
RemoveSummaryLines(s) ==
    LET ls == Split(s, NL)
    IN  Join([i \in 1..Len(ls) |-> IF HasSummaryPhrase(ls[i]) THEN EmptyStr ELSE ls[i]], NL)

\* the length of the run of newlines s starts with
RECURSIVE NewlineRun(_)
NewlineRun(s) ==
    IF s # << >> /\ Head(s) = NL THEN 1 + NewlineRun(Tail(s)) ELSE 0

\* re.sub(r"\n{3,}", "\n\n", text)
RECURSIVE CollapseNewlines(_)
CollapseNewlines(s) ==
    IF s = << >> THEN << >>
    ELSE LET n == NewlineRun(s)
         IN  IF n >= 3 THEN <<NL, NL>> \o CollapseNewlines(SubSeq(s, n + 1, Len(s)))
             ELSE IF n >= 1 THEN SubSeq(s, 1, n) \o CollapseNewlines(SubSeq(s, n + 1, Len(s)))
             ELSE <<Head(s)>> \o CollapseNewlines(Tail(s))

\* lines 236-240: the text the line scanner is given
CleanLessonText(text) ==
    Strip(CollapseNewlines(RemoveSummaryLines(RemoveAsterisks(text))))

\* ------------------------------------------------------------------------
\* The document under construction (python-docx Document): a sequence of
\* body elements.  A table is an element of the body; current_table refers
\* to it by its position (0 is None).
\* ------------------------------------------------------------------------
Para(type, text) ==
    [type |-> type, text |-> text, label |-> EmptyStr, rows |-> << >>, fill |-> ""]

Bullet(label, text) ==
    [type |-> "bullet", text |-> text, label |-> label, rows |-> << >>, fill |-> ""]

Table(rows, fill) ==
    [type |-> "table", text |-> EmptyStr, label |-> EmptyStr, rows |-> rows, fill |-> fill]

HeaderFill == "E6E6FA"
DomainFill == "D9D9D9"

\* lines 243-259: a new landscape document with its title block
NewDocument(timestamp, target_rating) ==
    << Para("heading0", <<"AI Lesson Plan - Observation Readiness Coach">>),
       Para("paragraph", <<"Generated on: ", timestamp>>),
       Para("paragraph", <<"Target Rating: ", target_rating>>),
       Para("paragraph", EmptyStr) >>

\* lines 261-264: the scanner's state before the first line
NewFormatter(timestamp, target_rating) ==
    [doc |-> NewDocument(timestamp, target_rating),
     current_table |-> 0,
     current_table_cols |-> 0,
     inside_section2 |-> FALSE,
     in_supporting_details |-> FALSE]

\* close_table(), lines 267-270
close_table(st) == [st EXCEPT !.current_table = 0, !.current_table_cols = 0]

HEADING_KEYS ==
    << "lesson information", "learning objectives", "target language",
       "lesson stages", "supporting details", "differentiation",
       "assessment and feedback", "assessment & feedback",
       "reflection and notes", "reflection & notes" >>

\* line.lower().startswith(key), for a key that is one chunk
StartsWith(line, key) == line # << >> /\ Lower(line[1]) = key

\* lines 378-382: the first heading key the line starts with, "" when none
MatchedHeading(line) ==
    IF \E k \in 1..Len(HEADING_KEYS) : StartsWith(line, HEADING_KEYS[k])
    THEN HEADING_KEYS[CHOOSE k \in 1..Len(HEADING_KEYS) :
                          /\ StartsWith(line, HEADING_KEYS[k])
                          /\ \A j \in 1..(k - 1) : ~StartsWith(line, HEADING_KEYS[j])]
    ELSE ""

\* re.match(r"^section\s+\d+", line, re.I)
IsSectionHeader(line) == line # << >> /\ Lower(line[1]) \in {"section 1", "section 2"}

\* "SECTION 2" in line.upper()
MentionsSection2(line) == Contains(UpperStr(line), "SECTION 2")

\* re.sub(r"^<prefix>[:]*", "", line, flags=re.I).strip(), the line starting with the prefix
AfterPrefix(line) == Strip(LStripSet(Tail(line), {":"}))

\* characters of [A-Za-z &]: chunks made of them only
IsLabelChunk(c) ==
    Lower(c) \in {"domain name", "rubric check", "ai mentor comment", "supporting details",
                  "lesson stages", "summary of ai", "generated guidance", "aids",
                  "see", "x", "y", " ", "&"}

\* [A-Z][A-Za-z &]+ can start with the chunk: a capital and one more character
IsLabelStart(c) == IsLabelChunk(c) /\ Lower(c) # c /\ c \notin {" ", "&"}

\* the position of the first ":" of the line, 0 when none
FirstColon(line) ==
    IF Contains(line, ":")
    THEN CHOOSE k \in 1..Len(line) : line[k] = ":" /\ \A j \in 1..(k - 1) : line[j] # ":"
    ELSE 0

\* LABEL_RE = ^([A-Z][A-Za-z &]+):\s*(.*)$ matches the line
LabelMatch(line) ==
    LET k == FirstColon(line)
    IN  /\ k >= 2
        /\ IsLabelStart(line[1])
        /\ \A j \in 1..(k - 1) : IsLabelChunk(line[j])

\* group(1) and group(2) of the match
LabelOf(line) == SubSeq(line, 1, FirstColon(line) - 1)
RestOf(line) == LStripSet(SubSeq(line, FirstColon(line) + 1, Len(line)), {" ", NL})

\* [c.strip() for c in line.split("|")]
PipeCols(line) ==
    LET parts == Split(line, "|") IN [i \in 1..Len(parts) |-> Strip(parts[i])]

\* lines 332-335: pad or cut the cells to the table's column count
FitCols(cols, n) ==
    [i \in 1..n |-> IF i <= Len(cols) THEN cols[i] ELSE EmptyStr]

\* ------------------------------------------------------------------------
\* The line scanner: one iteration of the loop of lines 283-427
\* ------------------------------------------------------------------------
AddElem(st, e) == [st EXCEPT !.doc = Append(@, e)]

\* rows[r].cells[0].text = a ; rows[r].cells[1].text = b, on the current table
SetRowPair(st, r, a, b) ==
    [st EXCEPT !.doc[st.current_table].rows[r] = [@ EXCEPT ![1] = a, ![2] = b]]

\* lines 292-297
Section2Break(st) ==
    [AddElem(close_table(st), Para("page_break", EmptyStr))
        EXCEPT !.inside_section2 = TRUE, !.in_supporting_details = FALSE]

\* lines 300-312
SectionHeader(st, line) ==
    LET a == [close_table(st) EXCEPT !.in_supporting_details = FALSE]
    IN  AddElem(AddElem(a, Para("section", UpperStr(line))), Para("paragraph", EmptyStr))

\* lines 315-339
PipeRow(st, line) ==
    LET cols == PipeCols(line)
    IN  IF st.current_table = 0
        THEN [AddElem(st, Table(<<cols>>, HeaderFill))
                 EXCEPT !.current_table = Len(st.doc) + 1,
                        !.current_table_cols = Len(cols)]
        ELSE [st EXCEPT !.doc[st.current_table].rows =
                            Append(@, FitCols(cols, st.current_table_cols))]

\* lines 343-357
DomainBlock(st, line) ==
    LET a == [close_table(st) EXCEPT !.in_supporting_details = FALSE]
        rows == << <<(<<"Domain Name">>), AfterPrefix(line)>>,
                   <<EmptyStr, EmptyStr>>,
                   <<EmptyStr, EmptyStr>> >>
    IN  [AddElem(a, Table(rows, DomainFill))
            EXCEPT !.current_table = Len(st.doc) + 1,
                   !.current_table_cols = 2]

\* lines 359-365
RubricCheck(st, line) ==
    IF st.current_table # 0 /\ Len(st.doc[st.current_table].rows) >= 2
    THEN SetRowPair(st, 2, <<"Rubric Check">>, AfterPrefix(line))
    ELSE st

\* lines 367-374
MentorComment(st, line) ==
    close_table(IF st.current_table # 0 /\ Len(st.doc[st.current_table].rows) >= 3
                THEN SetRowPair(st, 3, <<"AI Mentor Comment">>, AfterPrefix(line))
                ELSE st)

\* lines 384-404
HeadingBlock(st, line) ==
    LET a == [close_table(st) EXCEPT
                 !.in_supporting_details = (MatchedHeading(line) = "supporting details")]
        trailing == StripSet(Tail(line), {" ", ":", "-"})
        b == AddElem(a, Para("heading", <<line[1]>>))
    IN  IF trailing # EmptyStr THEN AddElem(b, Para("paragraph", trailing)) ELSE b

\* lines 407-420
BulletItem(st, line) ==
    IF LabelMatch(line)
    THEN AddElem(st, Bullet(LabelOf(line) \o <<":", " ">>, RestOf(line)))
    ELSE AddElem(st, Bullet(EmptyStr, line))

\* lines 423-427
DefaultParagraph(st, line) ==
    AddElem([close_table(st) EXCEPT !.in_supporting_details = FALSE],
            Para("paragraph", line))

\* a slip: a blank line leaves the bullet mode on
BlankLine_keep(st) == st

\* lines 285-289
BlankLine(st) == [st EXCEPT !.in_supporting_details = FALSE]

\* which branch of the loop body takes the (stripped) line
Branch(st, line) ==
    CASE line = EmptyStr -> "blank"
      [] OTHER ->
    CASE MentionsSection2(line) /\ ~st.inside_section2 -> "section2"
      [] OTHER ->
    CASE IsSectionHeader(line) -> "section"
      [] OTHER ->
    CASE Contains(line, "|") -> "pipe"
      [] OTHER ->
    CASE StartsWith(line, "domain name") -> "domain"
      [] OTHER ->
    CASE StartsWith(line, "rubric check") -> "rubric"
      [] OTHER ->
    CASE StartsWith(line, "ai mentor comment") -> "mentor"
      [] OTHER ->
    CASE MatchedHeading(line) # "" -> "heading"
      [] OTHER ->
    CASE st.in_supporting_details -> "bullet"
      [] OTHER -> "paragraph"

\* the loop body of lines 283-427 for one raw line
ProcessLine(st, raw) ==
    LET line == Strip(raw)
        b == Branch(st, line)
    IN  CASE b = "blank" -> BlankLine(st)
          [] b = "section2" -> Section2Break(st)
          [] b = "section" -> SectionHeader(st, line)
          [] b = "pipe" -> PipeRow(st, line)
          [] b = "domain" -> DomainBlock(st, line)
          [] b = "rubric" -> RubricCheck(st, line)
          [] b = "mentor" -> MentorComment(st, line)
          [] b = "heading" -> HeadingBlock(st, line)
          [] b = "bullet" -> BulletItem(st, line)
          [] OTHER -> DefaultParagraph(st, line)

\* the loop of lines 283-427 over the first n lines
RECURSIVE ScanLines(_, _, _)
ScanLines(st, lines, n) ==
    IF n = 0 THEN st ELSE ProcessLine(ScanLines(st, lines, n - 1), lines[n])

\* ------------------------------------------------------------------------
\* Uploads and text extraction
\* ------------------------------------------------------------------------
Absent == "Absent"

\* an uploaded file: its name, the format of its bytes and, page by page, what
\* a reader of that format finds in it (NoContent: a page without a text layer)
Upload(filename, format, pages) ==
    [filename |-> filename, format |-> format, pages |-> pages]

\* request.files.get("file") when the request has no such part
NoFile == Upload(EmptyStr, "none", << >>)

\* bool(file) of line 195: no file part, or a part whose filename is empty
NotFile(file) == file = NoFile \/ file.filename = EmptyStr

\* a slip: file.filename.endswith(".pdf"), the name not lowered
IsPdfName_cased(filename) ==
    filename # EmptyStr /\ filename[Len(filename)] = ".pdf"

\* name.endswith(".pdf") for name = file.filename.lower(), lines 181-182
IsPdfName(filename) ==
    filename # EmptyStr /\ LowerStr(filename)[Len(filename)] = ".pdf"

\* "\n".join([(page.extract_text() or "") for page in reader.pages]), line 185
PagesText(pages) ==
    Join([i \in 1..Len(pages) |-> ContentOrEmpty(pages[i])], NL)

\* PdfReader(file) of line 184 raises on bytes that are no PDF
PdfReaderRaises(file) == file.format # "pdf"

\* a slip: the joined text returned without .strip()
extract_text_from_file_unstripped(file) ==
    IF ~IsPdfName(file.filename) THEN EmptyStr ELSE PagesText(file.pages)

\* extract_text_from_file, lines 180-186, when PdfReader does not raise
extract_text_from_file(file) ==
    IF ~IsPdfName(file.filename) THEN EmptyStr ELSE Strip(PagesText(file.pages))

\* the upload holds text: some page has a chunk that is not whitespace
HasText(file) ==
    \E i \in 1..Len(file.pages) :
        file.pages[i] # NoContent /\ \E j \in 1..Len(file.pages[i]) : ~IsSpace(file.pages[i][j])

\* ------------------------------------------------------------------------
\* Requests and responses
\* ------------------------------------------------------------------------
NoRequest == [method |-> "", path |-> "", file |-> NoFile, form |-> [target_rating |-> Absent]]

Get(path) == [method |-> "GET", path |-> path, file |-> NoFile, form |-> [target_rating |-> Absent]]
Options(path) == [method |-> "OPTIONS", path |-> path, file |-> NoFile, form |-> [target_rating |-> Absent]]
Post(path, file, form) == [method |-> "POST", path |-> path, file |-> file, form |-> form]

\* request.form.get(key, default)
FormGet(form, default) == IF form.target_rating = Absent THEN default ELSE form.target_rating

HeaderNames ==
    {"Access-Control-Allow-Origin", "Access-Control-Allow-Headers",
     "Access-Control-Allow-Methods", "Access-Control-Allow-Credentials"}

NoHeaders == [h \in HeaderNames |-> ""]

NoAttachment == << >>

\* jsonify({key: value}), status
Json(key, value, status) ==
    [status |-> status, key |-> key, value |-> value, attachment |-> NoAttachment,
     headers |-> NoHeaders]

NoResponse == Json("", "", 0)

\* send_file(path, as_attachment=True, download_name=...)
FileResponse(content) ==
    [status |-> 200, key |-> "download_name", value |-> "BAE_Lesson_Plan.docx",
     attachment |-> content, headers |-> NoHeaders]

\* a slip: after_request without the Allow-Credentials line
CorsHeaders_three(headers) ==
    [headers EXCEPT !["Access-Control-Allow-Origin"] = "*",
                    !["Access-Control-Allow-Headers"] = "Content-Type, Authorization",
                    !["Access-Control-Allow-Methods"] = "GET, POST, OPTIONS"]

\* the headers after_request sets, lines 25-28
CorsHeaders(headers) ==
    [headers EXCEPT !["Access-Control-Allow-Origin"] = "*",
                    !["Access-Control-Allow-Headers"] = "Content-Type, Authorization",
                    !["Access-Control-Allow-Methods"] = "GET, POST, OPTIONS",
                    !["Access-Control-Allow-Credentials"] = "true"]

\* the headers generate_options sets itself, lines 47-49
PreflightHeaders(headers) ==
    [headers EXCEPT !["Access-Control-Allow-Origin"] = "*",
                    !["Access-Control-Allow-Headers"] = "Content-Type, Authorization",
                    !["Access-Control-Allow-Methods"] = "GET, POST, OPTIONS"]

\* ------------------------------------------------------------------------
\* State
\* ------------------------------------------------------------------------
Slots == 1..MaxRequests

VARIABLES
    request,                \* the request each handler invocation is given
    completion,             \* what the completion endpoint answers to its prompt
    pc,                     \* where the invocation stands
    text_content,           \* line 198
    ai_calls,               \* the prompts sent to client.chat.completions.create
    timestamp,              \* line 209
    lesson_text,            \* lines 234-240
    lines,                  \* lesson_text.split("\n"), line 283
    idx,                    \* how many of them the loop has taken
    doc,                    \* line 243
    current_table,          \* line 261
    current_table_cols,     \* line 262
    inside_section2,        \* line 263
    in_supporting_details,  \* line 264
    output,                 \* the name of the NamedTemporaryFile, line 437 (0: none)
    tmpdir,                 \* the files of the temporary directory
    exc,                    \* str(e) of the exception the except clause caught ("": none)
    response                \* the response of the invocation

vars ==
    << request, completion, pc, text_content, ai_calls, timestamp, lesson_text, lines,
       idx, doc, current_table, current_table_cols, inside_section2,
       in_supporting_details, output, tmpdir, exc, response >>

scanner == << doc, current_table, current_table_cols, inside_section2, in_supporting_details >>

\* a slip: in_supporting_details kept in a module-level global, which the
\* invocation in slot 1 writes
Formatter_global(r) ==
    [doc |-> doc[r],
     current_table |-> current_table[r],
     current_table_cols |-> current_table_cols[r],
     inside_section2 |-> inside_section2[r],
     in_supporting_details |-> in_supporting_details[1]]

\* the scanner's locals of invocation r as one value
Formatter(r) ==
    [doc |-> doc[r],
     current_table |-> current_table[r],
     current_table_cols |-> current_table_cols[r],
     inside_section2 |-> inside_section2[r],
     in_supporting_details |-> in_supporting_details[r]]

SetFormatter(r, st) ==
    /\ doc' = [doc EXCEPT ![r] = st.doc]
    /\ current_table' = [current_table EXCEPT ![r] = st.current_table]
    /\ current_table_cols' = [current_table_cols EXCEPT ![r] = st.current_table_cols]
    /\ inside_section2' = [inside_section2 EXCEPT ![r] = st.inside_section2]
    /\ in_supporting_details' = [in_supporting_details EXCEPT ![r] = st.in_supporting_details]

\* ------------------------------------------------------------------------
\* Handlers
\* ------------------------------------------------------------------------
\* str(e) of what a statement inside the try of generate_lesson_plan raises,
\* besides the PdfReader case: one message stands for them all
Exceptions == {"Connection error."}

PdfReadError == "EOF marker not found"

\* the handler returns resp; it is sent once after_request has run
Return(r, resp) ==
    /\ response' = [response EXCEPT ![r] = resp]
    /\ pc' = [pc EXCEPT ![r] = "reply"]

\* a slip: a fixed message instead of str(e)
ErrorResponse_generic(e) == Json("error", "Internal Server Error", 500)

\* return jsonify({"error": str(e)}), 500, line 444
ErrorResponse(e) == Json("error", e, 500)

\* except Exception as e, lines 442-444
Caught(r, e) ==
    /\ exc' = [exc EXCEPT ![r] = e]
    /\ Return(r, ErrorResponse(e))

\* home, lines 38-40
home(r) ==
    /\ pc[r] = "new"
    /\ request[r].method = "GET" /\ request[r].path = "/"
    /\ Return(r, Json("message", "Lesson Planner API is running", 200))
    /\ UNCHANGED << request, completion, text_content, ai_calls, timestamp, lesson_text,
                    lines, idx, scanner, output, tmpdir, exc >>

\* generate_options, lines 43-50
generate_options(r) ==
    /\ pc[r] = "new"
    /\ request[r].method = "OPTIONS" /\ request[r].path = "/generate"
    /\ Return(r, [Json("ok", "true", 200) EXCEPT !.headers = PreflightHeaders(@)])
    /\ UNCHANGED << request, completion, text_content, ai_calls, timestamp, lesson_text,
                    lines, idx, scanner, output, tmpdir, exc >>

IsGenerate(r) == request[r].method = "POST" /\ request[r].path = "/generate"

\* a slip: the check of line 199 left out
EmptyText_unchecked(text) == FALSE

\* not text_content, line 199
EmptyText(text) == text = EmptyStr

\* generate_lesson_plan, lines 194-200
ReadUpload(r) ==
    LET file == request[r].file
    IN  /\ pc[r] = "new"
        /\ IsGenerate(r)
        /\ IF NotFile(file)
           THEN /\ Return(r, Json("error", "No file uploaded", 400))
                /\ UNCHANGED << text_content, exc >>
           ELSE IF IsPdfName(file.filename) /\ PdfReaderRaises(file)
           THEN /\ Caught(r, PdfReadError)
                /\ UNCHANGED text_content
           ELSE IF EmptyText(extract_text_from_file(file))
           THEN /\ Return(r, Json("error", "Could not extract text from PDF", 400))
                /\ UNCHANGED << text_content, exc >>
           ELSE /\ text_content' = [text_content EXCEPT ![r] = extract_text_from_file(file)]
                /\ pc' = [pc EXCEPT ![r] = "ai"]
                /\ UNCHANGED << response, exc >>
        /\ UNCHANGED << request, completion, ai_calls, timestamp, lesson_text, lines, idx,
                        scanner, output, tmpdir >>

Timestamps == {"2025-01-01 10:00"}

\* the user prompt of lines 211-222, by the parts that vary in the model
UserPrompt(form, ts, text) ==
    [target_rating |-> FormGet(form, "Good"), timestamp |-> ts, text_content |-> text]

\* generate_lesson_plan, lines 202-234: the one call of the completion endpoint
CallCompletion(r) ==
    /\ pc[r] = "ai"
    /\ \E ts \in Timestamps :
          /\ timestamp' = [timestamp EXCEPT ![r] = ts]
          /\ ai_calls' = [ai_calls EXCEPT
                             ![r] = Append(@, UserPrompt(request[r].form, ts, text_content[r]))]
    /\ lesson_text' = [lesson_text EXCEPT ![r] = ContentOrEmpty(completion[r])]
    /\ pc' = [pc EXCEPT ![r] = "clean"]
    /\ UNCHANGED << request, completion, text_content, lines, idx, scanner, output,
                    tmpdir, exc, response >>

\* generate_lesson_plan, lines 236-283: clean-up, the new document, the split
PrepareDocument(r) ==
    LET text == CleanLessonText(lesson_text[r])
    IN  /\ pc[r] = "clean"
        /\ lesson_text' = [lesson_text EXCEPT ![r] = text]
        /\ lines' = [lines EXCEPT ![r] = Split(text, NL)]
        /\ idx' = [idx EXCEPT ![r] = 0]
        /\ SetFormatter(r, NewFormatter(timestamp[r], FormGet(request[r].form, "Good")))
        /\ pc' = [pc EXCEPT ![r] = "scan"]
        /\ UNCHANGED << request, completion, text_content, ai_calls, timestamp, output,
                        tmpdir, exc, response >>

\* one iteration of the loop of lines 283-427
ScanLine(r) ==
    /\ pc[r] = "scan"
    /\ idx[r] < Len(lines[r])
    /\ SetFormatter(r, ProcessLine(Formatter(r), lines[r][idx[r] + 1]))
    /\ idx' = [idx EXCEPT ![r] = @ + 1]
    /\ UNCHANGED << request, completion, pc, text_content, ai_calls, timestamp,
                    lesson_text, lines, output, tmpdir, exc, response >>

FooterText == "AI Lesson Planner - BAE StanEval Hybrid"

\* a name no file of the directory has (tempfile tries names until one is new)
FreshName(dir) ==
    CHOOSE n \in 1..(Cardinality(dir) + 1) :
        /\ \A f \in dir : f.name # n
        /\ \A m \in 1..(n - 1) : \E f \in dir : f.name = m

NoDocument == [body |-> << >>, footer |-> ""]

\* lines 430-437: the footer, then tempfile.NamedTemporaryFile(delete=False)
CreateTempFile(r) ==
    /\ pc[r] = "scan"
    /\ idx[r] = Len(lines[r])
    /\ output' = [output EXCEPT ![r] = FreshName(tmpdir)]
    /\ tmpdir' = tmpdir \cup {[name |-> FreshName(tmpdir), content |-> NoDocument]}
    /\ pc' = [pc EXCEPT ![r] = "save"]
    /\ UNCHANGED << request, completion, text_content, ai_calls, timestamp, lesson_text,
                    lines, idx, scanner, exc, response >>

\* the directory after writing content to the file called name
WriteFile(dir, name, content) ==
    {f \in dir : f.name # name} \cup {[name |-> name, content |-> content]}

\* doc.save(output.name), line 438
SaveDocument(r) ==
    /\ pc[r] = "save"
    /\ tmpdir' = WriteFile(tmpdir, output[r], [body |-> doc[r], footer |-> FooterText])
    /\ pc' = [pc EXCEPT ![r] = "send"]
    /\ UNCHANGED << request, completion, text_content, ai_calls, timestamp, lesson_text,
                    lines, idx, scanner, output, exc, response >>

\* the content of the file called name
ReadFile(dir, name) == (CHOOSE f \in dir : f.name = name).content

\* send_file(output.name, ...), lines 439-440
SendFile(r) ==
    /\ pc[r] = "send"
    /\ Return(r, FileResponse(ReadFile(tmpdir, output[r])))
    /\ UNCHANGED << request, completion, text_content, ai_calls, timestamp, lesson_text,
                    lines, idx, scanner, output, tmpdir, exc >>

\* the statements of the try block: a statement of generate_lesson_plan raises
InTry(r) == IsGenerate(r) /\ pc[r] \in {"new", "ai", "clean", "scan", "save", "send"}

\* a statement inside the try raises e: the except clause of lines 442-444
Raise(r) ==
    /\ InTry(r)
    /\ \E e \in Exceptions : Caught(r, e)
    /\ UNCHANGED << request, completion, text_content, ai_calls, timestamp, lesson_text,
                    lines, idx, scanner, output, tmpdir >>

\* after_request, lines 22-29: runs on every response before it is sent
after_request(r) ==
    /\ pc[r] = "reply"
    /\ response' = [response EXCEPT ![r].headers = CorsHeaders(@)]
    /\ pc' = [pc EXCEPT ![r] = "sent"]
    /\ UNCHANGED << request, completion, text_content, ai_calls, timestamp, lesson_text,
                    lines, idx, scanner, output, tmpdir, exc >>

Next ==
    \E r \in Slots :
        \/ home(r)
        \/ generate_options(r)
        \/ ReadUpload(r)
        \/ CallCompletion(r)
        \/ PrepareDocument(r)
        \/ ScanLine(r)
        \/ CreateTempFile(r)
        \/ SaveDocument(r)
        \/ SendFile(r)
        \/ Raise(r)
        \/ after_request(r)

\* ------------------------------------------------------------------------
\* Initial states: the requests under way and the endpoint's answers
\* ------------------------------------------------------------------------
TextPages == << <<"x">>, <<" ">> >>
BlankPages == << NoContent, <<" ">> >>

Files ==
    { Upload(<<"plan", ".pdf">>, "pdf", TextPages),
      Upload(<<"PLAN", ".PDF">>, "pdf", TextPages),
      Upload(<<"plan", ".pdf">>, "pdf", BlankPages),
      Upload(<<"plan", ".pdf">>, "word", TextPages),
      Upload(<<"plan", ".docx">>, "word", TextPages),
      Upload(<<"plan", ".xlsx">>, "excel", TextPages),
      Upload(<<"plan", ".png">>, "image", TextPages),
      Upload(EmptyStr, "pdf", TextPages) }

Forms == { [target_rating |-> Absent], [target_rating |-> "Outstanding"] }

AllRequests ==
    {Get("/"), Options("/generate")}
        \cup {Post("/generate", f, form) : f \in Files \cup {NoFile}, form \in Forms}

ConcRequests ==
    {Get("/"), Options("/generate"),
     Post("/generate", Upload(<<"plan", ".pdf">>, "pdf", TextPages), [target_rating |-> Absent])}

BasicRequests ==
    {Get("/"), Options("/generate"), Post("/generate", NoFile, [target_rating |-> Absent])}
        \cup {Post("/generate", Upload(<<"plan", ".pdf">>, "pdf", TextPages), [target_rating |-> Absent])}

\* the request gets as far as the completion endpoint unless a statement raises
SendsPrompt(req) ==
    /\ req.method = "POST" /\ req.path = "/generate"
    /\ ~NotFile(req.file)
    /\ req.file.format = "pdf"
    /\ Strip(PagesText(req.file.pages)) # EmptyStr

\* all strings of at most n items of S
SeqsUpTo(S, n) == UNION {[1..k -> S] : k \in 0..n}

ShortCompletions ==
    { NoContent,
      <<"x", "|", "y", NL, "x", "|", "y", NL, "Rubric Check", ":", "y">>,
      <<"SECTION 2", NL, "Domain Name", ":", "x", NL, "AI Mentor Comment", ":", "y">>,
      <<"Supporting Details", NL, "Aids", ":", " ", "*", "x", NL,
        "Summary of AI", "*", "-", "Generated Guidance", NL, NL, "y">> }

ConcCompletions ==
    { <<"Supporting Details", NL, "Aids", ":", "x", NL, "SECTION 2">>,
      <<"x", "|", "y", NL, "Rubric Check", ":", "y">> }

SampleLines ==
    { EmptyStr,
      <<" ", "x">>,
      <<"x", "|", "y">>,
      <<"Domain Name", "|", "x", "|", "y">>,
      <<"Domain Name", ":", " ", "x">>,
      <<"Rubric Check", ":", " ", "y">>,
      <<"AI Mentor Comment", ":", "y">>,
      <<"Supporting Details">>,
      <<"Lesson Stages", ":", "x">>,
      <<"Aids", ":", " ", "x">>,
      <<"SECTION 2">>,
      <<"Section 1", " ", "x">>,
      <<"see", "SECTION 2">> }

LineCompletions == {Join(ls, NL) : ls \in SeqsUpTo(SampleLines, MaxLines)}

CleanAlphabet == {"*", NL, "x", "Summary of AI-Generated Guidance"}

ChunkCompletions == SeqsUpTo(CleanAlphabet, MaxChunks) \cup {NoContent}

\* a request together with the answer the endpoint has for its prompt; a
\* request that sends no prompt gets no answer
Exchanges(reqs, answers) ==
    UNION {{<<q, a>> : a \in IF SendsPrompt(q) THEN answers ELSE {NoContent}} : q \in reqs}

\* the handlers of the slots in live are given requests of reqs, the endpoint
\* answers with members of answers
InitWith(live, reqs, answers) ==
    /\ \E x \in [live -> Exchanges(reqs, answers)] :
          /\ request = [r \in Slots |-> IF r \in live THEN x[r][1] ELSE NoRequest]
          /\ completion = [r \in Slots |-> IF r \in live THEN x[r][2] ELSE NoContent]
    /\ pc = [r \in Slots |-> IF r \in live THEN "new" ELSE "none"]
    /\ text_content = [r \in Slots |-> EmptyStr]
    /\ ai_calls = [r \in Slots |-> << >>]
    /\ timestamp = [r \in Slots |-> ""]
    /\ lesson_text = [r \in Slots |-> EmptyStr]
    /\ lines = [r \in Slots |-> << >>]
    /\ idx = [r \in Slots |-> 0]
    /\ doc = [r \in Slots |-> << >>]
    /\ current_table = [r \in Slots |-> 0]
    /\ current_table_cols = [r \in Slots |-> 0]
    /\ inside_section2 = [r \in Slots |-> FALSE]
    /\ in_supporting_details = [r \in Slots |-> FALSE]
    /\ output = [r \in Slots |-> 0]
    /\ tmpdir = {}
    /\ exc = [r \in Slots |-> ""]
    /\ response = [r \in Slots |-> NoResponse]

\* one request of any kind
Init == InitWith({1}, AllRequests, ShortCompletions)

\* several requests, handled in any interleaving
InitConc == InitWith(Slots, ConcRequests, ConcCompletions)

\* one request, the endpoint answering with any few lines
InitScan == InitWith({1}, BasicRequests, LineCompletions)

\* one request, the endpoint answering with any short string
InitClean == InitWith({1}, BasicRequests, ChunkCompletions)

Spec == Init /\ [][Next]_vars
SpecConc == InitConc /\ [][Next]_vars
SpecScan == InitScan /\ [][Next]_vars
SpecClean == InitClean /\ [][Next]_vars

\* ------------------------------------------------------------------------
\* Properties
\* ------------------------------------------------------------------------
Answered(r) == pc[r] \in {"reply", "sent"}

\* the upload of r is a named file in one of the four formats and holds text
NamedUploadWithText(r) ==
    /\ IsGenerate(r)
    /\ request[r].file.filename # EmptyStr
    /\ request[r].file.format \in {"pdf", "word", "excel", "image"}
    /\ HasText(request[r].file)

\* the last chunk of the file name, lowered, is ".pdf"
NamedPdf(r) ==
    LET name == request[r].file.filename
    IN  name # EmptyStr /\ Lower(name[Len(name)]) = ".pdf"

\* C1 as stated: an upload in any of the formats PDF, Word, Excel or image that
\* holds text is never rejected with a 400: its text is extracted and the handler
\* goes on to the completion call.
C1_AnyFormatAccepted ==
    \A r \in Slots :
        (NamedUploadWithText(r) /\ Answered(r)) => response[r].status # 400

\* C1 amended: only PDF is accepted.  An upload whose name ends in .pdf in any
\* letter case, whose bytes are a PDF and which holds text is never answered 400,
\* and once read its extracted text is non-empty and the handler stands at the
\* completion call or beyond; a named upload whose name does not end in .pdf
\* (Word, Excel, image) is answered 400 "Could not extract text from PDF"
\* unless a statement raised, and no prompt is ever sent for it.
C1_OnlyPdfAccepted ==
    \A r \in Slots :
        /\ (NamedUploadWithText(r) /\ NamedPdf(r) /\ request[r].file.format = "pdf")
              => /\ Answered(r) => response[r].status # 400
                 /\ (pc[r] # "new" /\ exc[r] = "")
                       => /\ text_content[r] # EmptyStr
                          /\ pc[r] = "ai" \/ Len(ai_calls[r]) = 1
        /\ (NamedUploadWithText(r) /\ ~NamedPdf(r))
              => /\ ai_calls[r] = << >>
                 /\ (Answered(r) /\ exc[r] = "")
                       => /\ response[r].status = 400
                          /\ response[r].value = "Could not extract text from PDF"

\* C1 witness: a PDF named in capitals has been answered with the document
C1_Witness ==
    /\ pc[1] = "sent"
    /\ request[1].file.filename = <<"PLAN", ".PDF">>
    /\ response[1].status = 200
    /\ Len(ai_calls[1]) = 1

\* C2: within one handling of POST /generate the completion endpoint is called
\* at most once, and only with a file found in the request and a non-empty
\* extracted text, which is the text the prompt carries; a request answered 400
\* made no call.
C2_AtMostOneCompletionCall ==
    \A r \in Slots :
        /\ Len(ai_calls[r]) <= 1
        /\ ai_calls[r] # << >>
              => /\ IsGenerate(r)
                 /\ request[r].file # NoFile
                 /\ request[r].file.filename # EmptyStr
                 /\ text_content[r] # EmptyStr
                 /\ ai_calls[r][1].text_content = text_content[r]
        /\ (Answered(r) /\ response[r].status = 400) => ai_calls[r] = << >>

\* C2 witness: a request answered after its one call
C2_Witness ==
    /\ pc[1] = "sent"
    /\ Len(ai_calls[1]) = 1
    /\ response[1].status = 200

\* C3: an exception raised by any statement of POST /generate ends in a 500
\* response whose JSON body carries str(e) under "error" and no attachment;
\* a 500 response comes from nothing else.
C3_ExceptionGives500 ==
    \A r \in Slots :
        /\ exc[r] # ""
              => /\ Answered(r)
                 /\ response[r].status = 500
                 /\ response[r].key = "error"
                 /\ response[r].value = exc[r]
                 /\ response[r].attachment = NoAttachment
        /\ (Answered(r) /\ response[r].status = 500) => exc[r] # ""

\* C3 witness: the exception came after the document was saved, and it is the
\* error that was sent
C3_Witness ==
    /\ pc[1] = "sent"
    /\ exc[1] \in Exceptions
    /\ output[1] # 0
    /\ response[1].status = 500

\* no document was built and no temporary file written for r
NothingBuilt(r) == doc[r] = << >> /\ output[r] = 0 /\ tmpdir = {}

\* the text a PDF reader gets from the upload of r is empty, or its name is no PDF name
NoExtractableText(r) == ~NamedPdf(r) \/ ~HasText(request[r].file)

\* C4 as stated: without a file part the answer is 400 "No file uploaded"; with
\* a file part from which the extracted text is empty (every file whose name
\* does not end in .pdf among them) it is 400 "Could not extract text from
\* PDF"; either way nothing is built.
C4_MissingOrEmptyUpload ==
    \A r \in Slots :
        (IsGenerate(r) /\ Answered(r) /\ exc[r] = "")
            => /\ request[r].file = NoFile
                  => /\ response[r].status = 400
                     /\ response[r].value = "No file uploaded"
                     /\ NothingBuilt(r)
               /\ (request[r].file # NoFile /\ NoExtractableText(r))
                  => /\ response[r].status = 400
                     /\ response[r].value = "Could not extract text from PDF"
                     /\ NothingBuilt(r)

\* C4 amended: without a file part, or with a file part whose filename is
\* empty, the answer is 400 "No file uploaded"; with a file part that has a
\* filename and from which the extracted text is empty (every such file whose
\* name does not end in .pdf among them) it is 400 "Could not extract text from
\* PDF"; either way nothing is built.
C4_MissingOrEmptyUploadNamed ==
    \A r \in Slots :
        (IsGenerate(r) /\ Answered(r) /\ exc[r] = "")
            => /\ (request[r].file = NoFile \/ request[r].file.filename = EmptyStr)
                  => /\ response[r].status = 400
                     /\ response[r].value = "No file uploaded"
                     /\ NothingBuilt(r)
               /\ (request[r].file.filename # EmptyStr /\ NoExtractableText(r))
                  => /\ response[r].status = 400
                     /\ response[r].value = "Could not extract text from PDF"
                     /\ NothingBuilt(r)

\* C4 witness: a PDF without a text layer has been turned down
C4_Witness ==
    /\ pc[1] = "sent"
    /\ request[1].file = Upload(<<"plan", ".pdf">>, "pdf", BlankPages)
    /\ response[1].value = "Could not extract text from PDF"

\* C5 as stated: once the response of a POST /generate request has been sent,
\* no document file that request created is left in storage.
C5_NoFileOutlivesRequest ==
    \A r \in Slots :
        pc[r] = "sent" => \A f \in tmpdir : f.name # output[r]

\* the lines the scanner of r is given, from the endpoint's answer alone
LinesAlone(r) == Split(CleanLessonText(ContentOrEmpty(completion[r])), NL)

\* the scanner's state after n lines when r is handled alone
FormatterAlone(r, n) ==
    ScanLines(NewFormatter(timestamp[r], FormGet(request[r].form, "Good")), LinesAlone(r), n)

\* C6: with several POST /generate requests handled in any interleaving, the
\* scanner state of each (current table, column count, Section-2 flag,
\* supporting-details flag, document so far) is after every line what it is
\* when the request is handled alone, and so is the document it sends.
C6_RequestsShareNoState ==
    \A r \in Slots :
        /\ pc[r] \in {"scan", "save", "send"}
              => /\ lines[r] = LinesAlone(r)
                 /\ doc[r] = FormatterAlone(r, idx[r]).doc
                 /\ current_table[r] = FormatterAlone(r, idx[r]).current_table
                 /\ current_table_cols[r] = FormatterAlone(r, idx[r]).current_table_cols
                 /\ inside_section2[r] = FormatterAlone(r, idx[r]).inside_section2
                 /\ in_supporting_details[r] = FormatterAlone(r, idx[r]).in_supporting_details
        /\ (Answered(r) /\ response[r].status = 200 /\ IsGenerate(r))
              => response[r].attachment =
                    [body |-> FormatterAlone(r, Len(LinesAlone(r))).doc, footer |-> FooterText]

\* C6 witness: two requests are both in the middle of their scan, one in
\* bullet mode with a table behind it and one with a table open
C6_Witness ==
    /\ pc[1] = "scan" /\ idx[1] = 1
    /\ pc[2] = "scan" /\ idx[2] = 1
    /\ in_supporting_details[1] /\ ~in_supporting_details[2]
    /\ current_table[2] # 0

\* C7: every response sent, whatever the route and the status, carries the four
\* CORS headers, Allow-Origin being "*" and Allow-Credentials "true".
C7_CorsOnEveryResponse ==
    \A r \in Slots :
        pc[r] = "sent"
            => /\ response[r].headers["Access-Control-Allow-Origin"] = "*"
               /\ response[r].headers["Access-Control-Allow-Headers"] # ""
               /\ response[r].headers["Access-Control-Allow-Methods"] # ""
               /\ response[r].headers["Access-Control-Allow-Credentials"] = "true"

\* C7 witness: the preflight response, whose handler sets three headers itself
C7_Witness ==
    /\ pc[1] = "sent"
    /\ request[1].method = "OPTIONS"
    /\ response[1].status = 200

\* s has three newlines in a row
HasTripleNewline(s) ==
    \E i \in 1..(Len(s) - 2) : s[i] = NL /\ s[i + 1] = NL /\ s[i + 2] = NL

\* no text of the element has an asterisk
ElemFreeOfAsterisk(e) ==
    /\ ~Contains(e.text, "*")
    /\ ~Contains(e.label, "*")
    /\ \A i \in 1..Len(e.rows) : \A j \in 1..Len(e.rows[i]) : ~Contains(e.rows[i][j], "*")

\* C8: whatever the endpoint answers, the text the line scanner is given has
\* no "*" and no three newlines in a row, and neither the lines it is split
\* into nor the document built from them have a "*".
C8_NoAsteriskNoTripleNewline ==
    \A r \in Slots :
        pc[r] \in {"scan", "save", "send"}
            => /\ ~Contains(lesson_text[r], "*")
               /\ ~HasTripleNewline(lesson_text[r])
               /\ \A i \in 1..Len(lines[r]) : ~Contains(lines[r][i], "*")
               /\ \A i \in 1..Len(doc[r]) : ElemFreeOfAsterisk(doc[r][i])

\* C8 witness: the answer had an asterisk and, once it is gone, three newlines
\* in a row between two lines of text, and the scanner has taken its lines
C8_Witness ==
    /\ pc[1] = "scan" /\ idx[1] = Len(lines[1])
    /\ Contains(completion[1], "*")
    /\ HasTripleNewline(RemoveSummaryLines(SelectSeq(completion[1], LAMBDA c : c # "*")))
    /\ Len(lines[1]) = 3

\* the loop of r takes its next line in this step
TakesLine(r) == pc[r] = "scan" /\ idx'[r] = idx[r] + 1

\* the line the loop of r takes next, stripped
NextLine(r) == Strip(lines[r][idx[r] + 1])

\* the line starts with "Rubric Check" or "AI Mentor Comment" and is no section or pipe line
IsRubricOrMentor(line) ==
    /\ ~(line = EmptyStr) /\ ~IsSectionHeader(line) /\ ~Contains(line, "|")
    /\ Lower(line[1]) \in {"rubric check", "ai mentor comment"}

\* a table built from pipe-delimited lines / by a "Domain Name" line
IsPipeTable(e) == e.type = "table" /\ e.fill = HeaderFill
IsDomainTable(e) == e.type = "table" /\ e.fill = DomainFill

\* C9 as stated: a "Rubric Check" or "AI Mentor Comment" line writes only into
\* the table of a preceding "Domain Name" line: it leaves every table built
\* from pipe-delimited lines as it was, and with no domain table open it
\* changes no table.
C9_RubricWritesDomainTableOnly ==
    [][ \A r \in Slots :
          (TakesLine(r) /\ IsRubricOrMentor(NextLine(r)) /\ ~MentionsSection2(NextLine(r)))
              => /\ \A i \in 1..Len(doc[r]) : IsPipeTable(doc[r][i]) => doc'[r][i] = doc[r][i]
                 /\ (current_table[r] = 0 \/ ~IsDomainTable(doc[r][current_table[r]]))
                       => doc'[r] = doc[r] ]_vars

\* a line of the first n mentions SECTION 2
Section2Seen(ls, n) == \E k \in 1..n : MentionsSection2(Strip(ls[k]))

\* after the first n lines, the latest blank line, section line, "Domain Name"
\* line or recognised heading (pipe rows, "Rubric Check" and "AI Mentor Comment"
\* lines are none of these) is a "Supporting Details" heading
RECURSIVE SupportingOpen(_, _)
SupportingOpen(ls, n) ==
    IF n = 0 THEN FALSE
    ELSE LET line == Strip(ls[n])
         IN  IF line = EmptyStr THEN FALSE
             ELSE IF MentionsSection2(line) /\ ~Section2Seen(ls, n - 1) THEN FALSE
             ELSE IF IsSectionHeader(line) THEN FALSE
             ELSE IF Contains(line, "|") THEN SupportingOpen(ls, n - 1)
             ELSE IF Lower(line[1]) = "domain name" THEN FALSE
             ELSE IF Lower(line[1]) \in {"rubric check", "ai mentor comment"}
                  THEN SupportingOpen(ls, n - 1)
             ELSE IF \E k \in 1..Len(HEADING_KEYS) : Lower(line[1]) = HEADING_KEYS[k]
                  THEN Lower(line[1]) = "supporting details"
             ELSE SupportingOpen(ls, n - 1)

\* the step of r's loop adds a bullet item to the document
AddsBullet(r) ==
    /\ Len(doc'[r]) = Len(doc[r]) + 1
    /\ doc'[r][Len(doc'[r])].type = "bullet"

====
